---- MODULE Spec2Model ----
(***************************************************************************)
(* Model of the MLB play-by-play slicing simulator (src/API.py).           *)
(*                                                                         *)
(* One game_pk is modelled: GAME_SESSIONS is a dict keyed by game_pk and   *)
(* no code path reads or writes another key's entry.                       *)
(*                                                                         *)
(* replay_game_plays is a coroutine on a single-threaded event loop.  Its  *)
(* only suspension point is the upstream fetch inside load_game_session    *)
(* (API.py:33-34); everything from the return of the fetch to the return   *)
(* of the handler runs without interleaving.                               *)
(***************************************************************************)
EXTENDS Integers, Sequences, FiniteSets, TLC

\* ---------------------------------------------------------------- bounds
\* Play lists handed to the slicing loop on its own (SpecSlice).
MaxPlays == 3
MaxEvents == 3
\* Play lists the upstream feed can return to the one caller of SpecSeq.
MaxSeqPlays == 2
MaxSeqEvents == 3
\* Total events of the play lists the upstream feed can return to the
\* concurrent callers of Spec.
MaxFeedTotal == 4
\* Concurrent callers of the endpoint (Spec).
NumClients == 2
\* The call counter saturates at this value.
MaxTicks == 7
\* Polling consumers (src/test.py) and the total events of the play lists
\* the upstream feed returns while they poll (SpecPoll, SpecLone).
NumConsumers == 2
MaxPollTotal == 4

\* State of the server (src/API.py) and what is recorded about its responses.
VARIABLES GAME_SESSIONS, pc, req_reset, response, prev_cursor,
          prev_complete, reset_used, feed_changed, complete_seen, ticks

\* State of the consumers (src/test.py) and what is recorded about their
\* output.
VARIABLES last_processed_at_bat_index, TEAM_NAMES, continue_polling,
          seen_status, emitted, dup, emitted_partial

cvars == <<last_processed_at_bat_index, TEAM_NAMES, continue_polling,
           seen_status, emitted, dup, emitted_partial>>

vars == <<GAME_SESSIONS, pc, req_reset, response, prev_cursor,
          prev_complete, reset_used, feed_changed, complete_seen, ticks,
          last_processed_at_bat_index, TEAM_NAMES, continue_polling,
          seen_status, emitted, dup, emitted_partial>>

Consumers == 1..NumConsumers

Clients == 1..NumClients

Min(a, b) == IF a <= b THEN a ELSE b

\* ------------------------------------------------------------ play lists
\* A play is a record with its atBatIndex and its playEvents; an event is
\* represented by its identifier, unique over the whole timeline.
RECURSIVE MkPlays(_, _, _)
MkPlays(counts, k, before) ==
    IF k > Len(counts) THEN <<>>
    ELSE <<[atBatIndex |-> k - 1,
            playEvents |-> [j \in 1..counts[k] |-> before + j]]>>
         \o MkPlays(counts, k + 1, before + counts[k])

RECURSIVE CountVectors(_, _)
CountVectors(n, m) ==
    IF n = 0 THEN {<<>>}
    ELSE CountVectors(n - 1, m)
         \cup {Append(v, e) : v \in {w \in CountVectors(n - 1, m) : Len(w) = n - 1},
                              e \in 0..m}

PlayLists(n, m) == {MkPlays(v, 1, 0) : v \in CountVectors(n, m)}

\* Event counts of play lists of non-empty plays with at most t events.
RECURSIVE Compositions(_)
Compositions(t) ==
    {<<>>} \cup UNION {{<<e>> \o v : v \in Compositions(t - e)} : e \in 1..t}

TeamsOfFeed == [home |-> "Home", away |-> "Away"]

\* sum(len(play.get("playEvents", [])) for play in source_plays)
RECURSIVE SumEvents(_)
SumEvents(plays) ==
    IF plays = <<>> THEN 0
    ELSE Len(Head(plays).playEvents) + SumEvents(Tail(plays))

\* ------------------------------------------------------ load_game_session
\* What the upstream feed returns with status 200: the play list and the
\* two team names.  The feed is outside the program; each fetch may return
\* any play list within the bounds.
Feeds == [plays : {MkPlays(v, 1, 0) : v \in Compositions(MaxFeedTotal)},
          teams : {TeamsOfFeed}]

SeqFeeds == [plays : PlayLists(MaxSeqPlays, MaxSeqEvents), teams : {TeamsOfFeed}]

NoSession == [loaded |-> FALSE]

\* Variants of the load, each with one slip in it.
\* A reload keeps the cursor of the session it replaces.
load_game_session_keep_cursor(feed) ==
    [loaded       |-> TRUE,
     full_plays   |-> feed.plays,
     total_events |-> SumEvents(feed.plays),
     cursor       |-> IF GAME_SESSIONS.loaded
                      THEN Min(GAME_SESSIONS.cursor, SumEvents(feed.plays))
                      ELSE 0,
     teams        |-> feed.teams]

\* The cursor starts at 1 when the play list has events.
load_game_session_from_one(feed) ==
    [loaded       |-> TRUE,
     full_plays   |-> feed.plays,
     total_events |-> SumEvents(feed.plays),
     cursor       |-> Min(1, SumEvents(feed.plays)),
     teams        |-> feed.teams]

\* GAME_SESSIONS[game_pk] = {...}  (API.py:52-66)
load_game_session(feed) ==
    [loaded       |-> TRUE,
     full_plays   |-> feed.plays,
     total_events |-> SumEvents(feed.plays),
     cursor       |-> 0,
     teams        |-> feed.teams]

\* ------------------------------------------------------ replay_game_plays
\* Variant of the advance: the bound is tested with <=.
advance_cursor_past_end(session) ==
    IF session.cursor <= session.total_events
    THEN [session EXCEPT !.cursor = session.cursor + 1]
    ELSE session

\* 2. Advance Time (API.py:83-85)
advance_cursor(session) ==
    IF session.cursor < session.total_events
    THEN [session EXCEPT !.cursor = session.cursor + 1]
    ELSE session

\* Variants of the loop, each with one slip in it.
\* Scenario A tested with < : a play ending exactly at the cursor is dropped.
RECURSIVE slice_loop_strict(_, _, _, _, _)
slice_loop_strict(source_plays, i, events_processed, current_cursor, simulated) ==
    IF i > Len(source_plays) THEN simulated
    ELSE LET play == source_plays[i]
             num_events == Len(play.playEvents)
         IN  IF events_processed + num_events < current_cursor
             THEN slice_loop_strict(source_plays, i + 1, events_processed + num_events,
                                    current_cursor, Append(simulated, play))
             ELSE IF events_processed < current_cursor
                     /\ current_cursor < events_processed + num_events
             THEN Append(simulated,
                         [play EXCEPT !.playEvents =
                              SubSeq(play.playEvents, 1, current_cursor - events_processed)])
             ELSE simulated

\* Scenario B tested with <= on the left: at a boundary the next play is
\* appended as an empty partial play.
RECURSIVE slice_loop_empty_partial(_, _, _, _, _)
slice_loop_empty_partial(source_plays, i, events_processed, current_cursor, simulated) ==
    IF i > Len(source_plays) THEN simulated
    ELSE LET play == source_plays[i]
             num_events == Len(play.playEvents)
         IN  IF events_processed + num_events <= current_cursor
             THEN slice_loop_empty_partial(source_plays, i + 1,
                                           events_processed + num_events,
                                           current_cursor, Append(simulated, play))
             ELSE IF events_processed <= current_cursor
                     /\ current_cursor < events_processed + num_events
             THEN Append(simulated,
                         [play EXCEPT !.playEvents =
                              SubSeq(play.playEvents, 1, current_cursor - events_processed)])
             ELSE simulated

\* The slice takes the last events_to_show events instead of the first.
RECURSIVE slice_loop_tail(_, _, _, _, _)
slice_loop_tail(source_plays, i, events_processed, current_cursor, simulated) ==
    IF i > Len(source_plays) THEN simulated
    ELSE LET play == source_plays[i]
             num_events == Len(play.playEvents)
         IN  IF events_processed + num_events <= current_cursor
             THEN slice_loop_tail(source_plays, i + 1, events_processed + num_events,
                                  current_cursor, Append(simulated, play))
             ELSE IF events_processed < current_cursor
                     /\ current_cursor < events_processed + num_events
             THEN Append(simulated,
                         [play EXCEPT !.playEvents =
                              SubSeq(play.playEvents,
                                     num_events - (current_cursor - events_processed) + 1,
                                     num_events)])
             ELSE simulated

\* 3. The for loop over source_plays (API.py:91-119), from play i on.
RECURSIVE slice_loop(_, _, _, _, _)
slice_loop(source_plays, i, events_processed, current_cursor, simulated) ==
    IF i > Len(source_plays) THEN simulated
    ELSE LET play == source_plays[i]
             events_in_this_play == play.playEvents
             num_events == Len(events_in_this_play)
         IN  IF events_processed + num_events <= current_cursor
             THEN slice_loop(source_plays, i + 1, events_processed + num_events,
                             current_cursor, Append(simulated, play))
             ELSE IF events_processed < current_cursor
                     /\ current_cursor < events_processed + num_events
             THEN LET events_to_show == current_cursor - events_processed
                      partial_play ==
                          [play EXCEPT !.playEvents =
                               SubSeq(events_in_this_play, 1, events_to_show)]
                  IN  Append(simulated, partial_play)
             ELSE simulated

simulated_plays(source_plays, current_cursor) ==
    slice_loop(source_plays, 1, 0, current_cursor, <<>>)

\* 4. Final Response Structure (API.py:121-134).  reset and fetches are
\* not part of the body: they record the request the response answers.
response_data(session, reset, fetches) ==
    [kind           |-> "ok",
     teams          |-> session.teams,
     allPlays       |-> simulated_plays(session.full_plays, session.cursor),
     current_cursor |-> session.cursor,
     status         |-> IF session.cursor >= session.total_events
                        THEN "COMPLETE" ELSE "none",
     reset          |-> reset,
     fetches        |-> fetches]

NoResponse == [kind |-> "none"]

\* raise HTTPException(status_code=404)  (API.py:36-37)
error_response(reset) == [kind |-> "error", reset |-> reset, fetches |-> 1]

\* ------------------------------------------------------------- history
\* prev_cursor   : current_cursor of the last successful response before
\*                 the one in `response` (-1 when there is none)
\* prev_complete : that response carried status COMPLETE
\* reset_used    : some request with reset=true has been made
\* feed_changed  : some load stored a play list other than the one of the
\*                 session it replaced (the upstream data changed)
\* complete_seen : a response carried COMPLETE and no request with
\*                 reset=true has been made or has taken effect since
\* ticks         : successful calls since the session was loaded, the
\*                 loading call included (saturates at MaxTicks)
Record(resp) ==
    /\ response' = resp
    /\ prev_cursor' = IF response.kind = "ok" THEN response.current_cursor
                      ELSE prev_cursor
    /\ prev_complete' = IF response.kind = "ok" THEN response.status = "COMPLETE"
                        ELSE prev_complete
    /\ complete_seen' = IF resp.kind # "ok" THEN complete_seen
                        ELSE IF resp.reset THEN resp.status = "COMPLETE"
                        ELSE complete_seen \/ resp.status = "COMPLETE"

\* -------------------------------------------------------------- actions
\* Variant of the tick: the partial play is cut in the stored list itself
\* (no copy is taken before the slice is assigned).
TickNoLoad_in_place(c) ==
    /\ pc[c] = "idle"
    /\ GAME_SESSIONS.loaded
    /\ LET session == advance_cursor(GAME_SESSIONS)
           view == simulated_plays(session.full_plays, session.cursor)
       IN  /\ GAME_SESSIONS' =
                  IF view = <<>> THEN session
                  ELSE [session EXCEPT !.full_plays[Len(view)] = view[Len(view)]]
           /\ Record(response_data(session, FALSE, 0))
    /\ ticks' = Min(ticks + 1, MaxTicks)
    /\ UNCHANGED <<pc, req_reset, reset_used, feed_changed>>
    /\ UNCHANGED cvars

\* A request that needs no load (API.py:78 false): the handler runs to its
\* return without suspending.
TickNoLoad(c) ==
    /\ pc[c] = "idle"
    /\ GAME_SESSIONS.loaded
    /\ GAME_SESSIONS' = advance_cursor(GAME_SESSIONS)
    /\ Record(response_data(GAME_SESSIONS', FALSE, 0))
    /\ ticks' = Min(ticks + 1, MaxTicks)
    /\ UNCHANGED <<pc, req_reset, reset_used, feed_changed>>
    /\ UNCHANGED cvars

\* Variant of the load test: every request loads.
BeginLoad_any(c, reset) ==
    /\ pc[c] = "idle"
    /\ pc' = [pc EXCEPT ![c] = "fetching"]
    /\ req_reset' = [req_reset EXCEPT ![c] = reset]
    /\ reset_used' = (reset_used \/ reset)
    /\ complete_seen' = (complete_seen /\ ~reset)
    /\ UNCHANGED <<GAME_SESSIONS, response, prev_cursor, prev_complete,
                   feed_changed, ticks>>
    /\ UNCHANGED cvars

\* A request that loads (API.py:78 true): the handler runs up to the await
\* of the upstream fetch (API.py:34).
BeginLoad(c, reset) ==
    /\ pc[c] = "idle"
    /\ reset \/ ~GAME_SESSIONS.loaded
    /\ pc' = [pc EXCEPT ![c] = "fetching"]
    /\ req_reset' = [req_reset EXCEPT ![c] = reset]
    /\ reset_used' = (reset_used \/ reset)
    /\ complete_seen' = (complete_seen /\ ~reset)
    /\ UNCHANGED <<GAME_SESSIONS, response, prev_cursor, prev_complete,
                   feed_changed, ticks>>
    /\ UNCHANGED cvars

\* Variant of the handler after the load: it goes on with the session it
\* found before the await when there was one, not with the stored one.
LoadOk_stale_session(c, feed) ==
    /\ pc[c] = "fetching"
    /\ GAME_SESSIONS' = load_game_session(feed)
    /\ Record(response_data(advance_cursor(IF GAME_SESSIONS.loaded THEN GAME_SESSIONS
                                           ELSE GAME_SESSIONS'),
                            req_reset[c], 1))
    /\ ticks' = 1
    /\ pc' = [pc EXCEPT ![c] = "idle"]
    /\ req_reset' = [req_reset EXCEPT ![c] = FALSE]
    /\ feed_changed' = (feed_changed \/ (GAME_SESSIONS.loaded
                                          /\ GAME_SESSIONS.full_plays # feed.plays))
    /\ UNCHANGED reset_used
    /\ UNCHANGED cvars

\* The fetch returns status 200: the session is stored and the handler
\* runs on to its return (API.py:36-66, 81-134).
LoadOk(c, feed) ==
    /\ pc[c] = "fetching"
    /\ GAME_SESSIONS' = advance_cursor(load_game_session(feed))
    /\ Record(response_data(GAME_SESSIONS', req_reset[c], 1))
    /\ ticks' = 1
    /\ pc' = [pc EXCEPT ![c] = "idle"]
    /\ req_reset' = [req_reset EXCEPT ![c] = FALSE]
    /\ feed_changed' = (feed_changed \/ (GAME_SESSIONS.loaded
                                          /\ GAME_SESSIONS.full_plays # feed.plays))
    /\ UNCHANGED reset_used
    /\ UNCHANGED cvars

\* Variant of the failure: an empty session is stored before the status
\* of the fetch is tested.
LoadFail_partial(c) ==
    /\ pc[c] = "fetching"
    /\ GAME_SESSIONS' = load_game_session([plays |-> <<>>, teams |-> TeamsOfFeed])
    /\ Record(error_response(req_reset[c]))
    /\ pc' = [pc EXCEPT ![c] = "idle"]
    /\ req_reset' = [req_reset EXCEPT ![c] = FALSE]
    /\ UNCHANGED <<reset_used, feed_changed, ticks>>
    /\ UNCHANGED cvars

\* The fetch returns another status: the handler raises (API.py:36-37).
LoadFail(c) ==
    /\ pc[c] = "fetching"
    /\ Record(error_response(req_reset[c]))
    /\ pc' = [pc EXCEPT ![c] = "idle"]
    /\ req_reset' = [req_reset EXCEPT ![c] = FALSE]
    /\ UNCHANGED <<GAME_SESSIONS, reset_used, feed_changed, ticks>>
    /\ UNCHANGED cvars

\* Module level state of test.py (test.py:16-20) and of main (test.py:123).
UnknownTeams == [home |-> "Unknown Home", away |-> "Unknown Away"]

InitConsumers ==
    /\ last_processed_at_bat_index = [k \in Consumers |-> -1]
    /\ TEAM_NAMES = [k \in Consumers |-> UnknownTeams]
    /\ continue_polling = [k \in Consumers |-> "True"]
    /\ seen_status = [k \in Consumers |-> "none"]
    /\ emitted = [k \in Consumers |-> {}]
    /\ dup = FALSE
    /\ emitted_partial = FALSE

Init ==
    /\ InitConsumers
    /\ GAME_SESSIONS = NoSession
    /\ pc = [c \in Clients |-> "idle"]
    /\ req_reset = [c \in Clients |-> FALSE]
    /\ response = NoResponse
    /\ prev_cursor = -1
    /\ prev_complete = FALSE
    /\ reset_used = FALSE
    /\ feed_changed = FALSE
    /\ complete_seen = FALSE
    /\ ticks = 0

Next ==
    \/ \E c \in Clients : TickNoLoad(c)
    \/ \E c \in Clients, reset \in BOOLEAN : BeginLoad(c, reset)
    \/ \E c \in Clients, feed \in Feeds : LoadOk(c, feed)
    \/ \E c \in Clients : LoadFail(c)

\* Any number of callers, interleaving at the await of the fetch.
Spec == Init /\ [][Next]_vars

\* One caller that issues each request after the previous one returned.
NextSeq ==
    \/ TickNoLoad(1)
    \/ \E reset \in BOOLEAN : BeginLoad(1, reset)
    \/ \E feed \in SeqFeeds : LoadOk(1, feed)
    \/ LoadFail(1)

SpecSeq == Init /\ [][NextSeq]_vars

\* The view construction on its own (API.py:87-134): any stored play list
\* within the bounds, the cursor set to any value of [0, total_events].
InitSlice ==
    /\ InitConsumers
    /\ GAME_SESSIONS \in {load_game_session([plays |-> p, teams |-> TeamsOfFeed]) :
                              p \in PlayLists(MaxPlays, MaxEvents)}
    /\ pc = [c \in Clients |-> "idle"]
    /\ req_reset = [c \in Clients |-> FALSE]
    /\ response = NoResponse
    /\ prev_cursor = -1
    /\ prev_complete = FALSE
    /\ reset_used = FALSE
    /\ feed_changed = FALSE
    /\ complete_seen = FALSE
    /\ ticks = 0

SliceAt(c) ==
    /\ GAME_SESSIONS' = [GAME_SESSIONS EXCEPT !.cursor = c]
    /\ response' = response_data(GAME_SESSIONS', FALSE, 0)
    /\ UNCHANGED <<pc, req_reset, prev_cursor, prev_complete, reset_used,
                   feed_changed, complete_seen, ticks>>
    /\ UNCHANGED cvars

NextSlice == \E c \in 0..GAME_SESSIONS.total_events : SliceAt(c)

SpecSlice == InitSlice /\ [][NextSlice]_vars

TypeOK ==
    /\ pc \in [Clients -> {"idle", "fetching"}]
    /\ req_reset \in [Clients -> BOOLEAN]
    /\ GAME_SESSIONS.loaded =>
          /\ GAME_SESSIONS.cursor \in 0..GAME_SESSIONS.total_events
          /\ GAME_SESSIONS.total_events = SumEvents(GAME_SESSIONS.full_plays)
    /\ ticks \in 0..MaxTicks

\* ======================================================================
\* The consumer (src/test.py) polling the server
\* ======================================================================
\* The callers of the poll specifications: the consumers and one other
\* client that only issues requests with reset=true.
PollClients == 1..(NumConsumers + 1)

Resetter == NumConsumers + 1

\* The "result" of a play as the consumer tests it: a result with a
\* non-empty description, a result without one, no result.
ResultKinds == {"desc", "nodesc", "absent"}

WithResults(plays, r) ==
    [j \in 1..Len(plays) |->
        [atBatIndex |-> plays[j].atBatIndex,
         playEvents |-> plays[j].playEvents,
         result     |-> r[j]]]

\* What the upstream feed returns while consumers poll: non-empty plays,
\* each with its own kind of result.
PollFeeds ==
    [plays : UNION {{WithResults(MkPlays(v, 1, 0), r) :
                        r \in [1..Len(v) -> ResultKinds]} :
                    v \in Compositions(MaxPollTotal)},
     teams : {TeamsOfFeed}]

\* The upstream data of a game does not change between two loads.
SameUpstream(feed) ==
    GAME_SESSIONS.loaded => feed.plays = GAME_SESSIONS.full_plays

\* What requests.get / raise_for_status / response.json() hand to the
\* consumer (test.py:56-63): the body, or one of the three exceptions.
fetch_error == [kind |-> "error", reset |-> FALSE, fetches |-> 0]

\* get_current_team_name (test.py:23-46): the global team names are taken
\* from the response when both are present.
get_current_team_name(k, data) ==
    IF data.teams.home # "" /\ data.teams.away # ""
    THEN [TEAM_NAMES EXCEPT ![k] = data.teams]
    ELSE TEAM_NAMES

\* What the consumer has printed, recorded beside its state:
\* seen_status     : what the last poll of the consumer received
\* emitted         : the at-bat indices of the FINAL RESULT lines
\* dup             : some FINAL RESULT line repeated an index of the same
\*                   consumer
\* emitted_partial : some FINAL RESULT line was printed for a play of which
\*                   the view held fewer events than the stored play has
Emit(k, data, session, last_play) ==
    /\ emitted' = [emitted EXCEPT ![k] = @ \cup {last_play.atBatIndex}]
    /\ dup' = (dup \/ last_play.atBatIndex \in emitted[k])
    /\ emitted_partial' =
           (emitted_partial
            \/ Len(last_play.playEvents)
                   < Len(session.full_plays[Len(data.allPlays)].playEvents))

\* Variant of the consumer: the path that finds the index already printed
\* returns False.
fetch_and_process_game_data_stop_on_repeat(k, data, session) ==
    IF data.kind = "error"
    THEN /\ continue_polling' = [continue_polling EXCEPT ![k] = "None"]
         /\ seen_status' = [seen_status EXCEPT ![k] = "error"]
         /\ UNCHANGED <<last_processed_at_bat_index, TEAM_NAMES, emitted, dup,
                        emitted_partial>>
    ELSE IF data.status = "COMPLETE"
    THEN /\ continue_polling' = [continue_polling EXCEPT ![k] = "False"]
         /\ seen_status' = [seen_status EXCEPT ![k] = "COMPLETE"]
         /\ UNCHANGED <<last_processed_at_bat_index, TEAM_NAMES, emitted, dup,
                        emitted_partial>>
    ELSE /\ seen_status' = [seen_status EXCEPT ![k] = "ok"]
         /\ IF data.allPlays = <<>>
            THEN /\ continue_polling' = [continue_polling EXCEPT ![k] = "True"]
                 /\ UNCHANGED <<last_processed_at_bat_index, TEAM_NAMES, emitted,
                                dup, emitted_partial>>
            ELSE LET last_play == data.allPlays[Len(data.allPlays)]
                     play_result == last_play.result
                     at_bat_index == last_play.atBatIndex
                 IN  /\ TEAM_NAMES' = get_current_team_name(k, data)
                     /\ continue_polling' =
                            [continue_polling EXCEPT ![k] =
                                 IF play_result # "absent"
                                    /\ at_bat_index = last_processed_at_bat_index[k]
                                 THEN "False" ELSE "True"]
                     /\ IF play_result # "absent"
                           /\ at_bat_index # last_processed_at_bat_index[k]
                           /\ play_result = "desc"
                        THEN /\ last_processed_at_bat_index' =
                                    [last_processed_at_bat_index EXCEPT
                                         ![k] = at_bat_index]
                             /\ Emit(k, data, session, last_play)
                        ELSE UNCHANGED <<last_processed_at_bat_index, emitted, dup,
                                         emitted_partial>>

\* fetch_and_process_game_data after the fetch (test.py:61-115) and the
\* assignment of its return value in main (test.py:125): None on an
\* exception, False on COMPLETE, True otherwise.
fetch_and_process_game_data(k, data, session) ==
    IF data.kind = "error"
    THEN /\ continue_polling' = [continue_polling EXCEPT ![k] = "None"]
         /\ seen_status' = [seen_status EXCEPT ![k] = "error"]
         /\ UNCHANGED <<last_processed_at_bat_index, TEAM_NAMES, emitted, dup,
                        emitted_partial>>
    ELSE IF data.status = "COMPLETE"
    THEN /\ continue_polling' = [continue_polling EXCEPT ![k] = "False"]
         /\ seen_status' = [seen_status EXCEPT ![k] = "COMPLETE"]
         /\ UNCHANGED <<last_processed_at_bat_index, TEAM_NAMES, emitted, dup,
                        emitted_partial>>
    ELSE /\ continue_polling' = [continue_polling EXCEPT ![k] = "True"]
         /\ seen_status' = [seen_status EXCEPT ![k] = "ok"]
         /\ IF data.allPlays = <<>>
            THEN UNCHANGED <<last_processed_at_bat_index, TEAM_NAMES, emitted, dup,
                             emitted_partial>>
            ELSE LET last_play == data.allPlays[Len(data.allPlays)]
                     play_result == last_play.result
                     at_bat_index == last_play.atBatIndex
                 IN  /\ TEAM_NAMES' = get_current_team_name(k, data)
                     /\ IF play_result # "absent"
                           /\ at_bat_index # last_processed_at_bat_index[k]
                           /\ play_result = "desc"
                        THEN /\ last_processed_at_bat_index' =
                                    [last_processed_at_bat_index EXCEPT
                                         ![k] = at_bat_index]
                             /\ Emit(k, data, session, last_play)
                        ELSE UNCHANGED <<last_processed_at_bat_index, emitted, dup,
                                         emitted_partial>>

\* A poll of consumer k that the server answers without a load.
PollNoLoad(k) ==
    /\ continue_polling[k] = "True"
    /\ pc[k] = "idle"
    /\ GAME_SESSIONS.loaded
    /\ GAME_SESSIONS' = advance_cursor(GAME_SESSIONS)
    /\ response' = response_data(GAME_SESSIONS', FALSE, 0)
    /\ ticks' = Min(ticks + 1, MaxTicks)
    /\ fetch_and_process_game_data(k, response', GAME_SESSIONS')
    /\ UNCHANGED <<pc, req_reset, prev_cursor, prev_complete, reset_used,
                   feed_changed, complete_seen>>

\* A poll of consumer k that finds no session: the server starts the load.
PollBeginLoad(k) ==
    /\ continue_polling[k] = "True"
    /\ pc[k] = "idle"
    /\ ~GAME_SESSIONS.loaded
    /\ pc' = [pc EXCEPT ![k] = "fetching"]
    /\ UNCHANGED <<GAME_SESSIONS, req_reset, response, prev_cursor, prev_complete,
                   reset_used, feed_changed, complete_seen, ticks>>
    /\ UNCHANGED cvars

\* The load of that poll succeeds and the consumer processes the body.
PollLoadOk(k, feed) ==
    /\ pc[k] = "fetching"
    /\ SameUpstream(feed)
    /\ GAME_SESSIONS' = advance_cursor(load_game_session(feed))
    /\ response' = response_data(GAME_SESSIONS', FALSE, 1)
    /\ ticks' = 1
    /\ pc' = [pc EXCEPT ![k] = "idle"]
    /\ fetch_and_process_game_data(k, response', GAME_SESSIONS')
    /\ UNCHANGED <<req_reset, prev_cursor, prev_complete, reset_used,
                   feed_changed, complete_seen>>

\* The load of that poll fails: the server answers 404 and
\* raise_for_status raises HTTPError (test.py:58).
PollLoadFail(k) ==
    /\ pc[k] = "fetching"
    /\ response' = error_response(FALSE)
    /\ pc' = [pc EXCEPT ![k] = "idle"]
    /\ fetch_and_process_game_data(k, response', GAME_SESSIONS)
    /\ UNCHANGED <<GAME_SESSIONS, req_reset, prev_cursor, prev_complete,
                   reset_used, feed_changed, complete_seen, ticks>>

\* The request does not reach the server: requests.get raises
\* ConnectionError (test.py:57).
PollUnreachable(k) ==
    /\ continue_polling[k] = "True"
    /\ pc[k] = "idle"
    /\ fetch_and_process_game_data(k, fetch_error, GAME_SESSIONS)
    /\ UNCHANGED <<GAME_SESSIONS, pc, req_reset, response, prev_cursor,
                   prev_complete, reset_used, feed_changed, complete_seen, ticks>>

\* The other client calls with reset=true (API.py:78-79) ...
ResetBegin ==
    /\ pc[Resetter] = "idle"
    /\ pc' = [pc EXCEPT ![Resetter] = "fetching"]
    /\ req_reset' = [req_reset EXCEPT ![Resetter] = TRUE]
    /\ reset_used' = TRUE
    /\ UNCHANGED <<GAME_SESSIONS, response, prev_cursor, prev_complete,
                   feed_changed, complete_seen, ticks>>
    /\ UNCHANGED cvars

\* ... its load succeeds (API.py:36-66, 81-134) ...
ResetLoadOk(feed) ==
    /\ pc[Resetter] = "fetching"
    /\ SameUpstream(feed)
    /\ GAME_SESSIONS' = advance_cursor(load_game_session(feed))
    /\ response' = response_data(GAME_SESSIONS', TRUE, 1)
    /\ ticks' = 1
    /\ pc' = [pc EXCEPT ![Resetter] = "idle"]
    /\ req_reset' = [req_reset EXCEPT ![Resetter] = FALSE]
    /\ UNCHANGED <<prev_cursor, prev_complete, reset_used, feed_changed,
                   complete_seen>>
    /\ UNCHANGED cvars

\* ... or fails (API.py:36-37).
ResetLoadFail ==
    /\ pc[Resetter] = "fetching"
    /\ response' = error_response(TRUE)
    /\ pc' = [pc EXCEPT ![Resetter] = "idle"]
    /\ req_reset' = [req_reset EXCEPT ![Resetter] = FALSE]
    /\ UNCHANGED <<GAME_SESSIONS, prev_cursor, prev_complete, reset_used,
                   feed_changed, complete_seen, ticks>>
    /\ UNCHANGED cvars

InitPoll ==
    /\ InitConsumers
    /\ GAME_SESSIONS = NoSession
    /\ pc = [c \in PollClients |-> "idle"]
    /\ req_reset = [c \in PollClients |-> FALSE]
    /\ response = NoResponse
    /\ prev_cursor = -1
    /\ prev_complete = FALSE
    /\ reset_used = FALSE
    /\ feed_changed = FALSE
    /\ complete_seen = FALSE
    /\ ticks = 0

NextPoll ==
    \/ \E k \in Consumers : PollNoLoad(k)
    \/ \E k \in Consumers : PollBeginLoad(k)
    \/ \E k \in Consumers, feed \in PollFeeds : PollLoadOk(k, feed)
    \/ \E k \in Consumers : PollLoadFail(k)
    \/ \E k \in Consumers : PollUnreachable(k)
    \/ ResetBegin
    \/ \E feed \in PollFeeds : ResetLoadOk(feed)
    \/ ResetLoadFail

\* The consumers and the other client, in any interleaving.
SpecPoll == InitPoll /\ [][NextPoll]_vars

\* Consumer 1 is the only caller.
NextLone ==
    \/ PollNoLoad(1)
    \/ PollBeginLoad(1)
    \/ \E feed \in PollFeeds : PollLoadOk(1, feed)
    \/ PollLoadFail(1)
    \/ PollUnreachable(1)

\* main issues the next request while continue_polling is true
\* (test.py:124-127) and the server answers every request it receives;
\* nothing makes a request fail to reach the server.
LoneProgress ==
    \/ PollNoLoad(1)
    \/ PollBeginLoad(1)
    \/ \E feed \in PollFeeds : PollLoadOk(1, feed)
    \/ PollLoadFail(1)

SpecLone == InitPoll /\ [][NextLone]_vars /\ WF_vars(LoneProgress)

TypeOKPoll ==
    /\ pc \in [PollClients -> {"idle", "fetching"}]
    /\ req_reset \in [PollClients -> BOOLEAN]
    /\ continue_polling \in [Consumers -> {"True", "False", "None"}]
    /\ seen_status \in [Consumers -> {"none", "ok", "COMPLETE", "error"}]
    /\ \A k \in Consumers :
          /\ last_processed_at_bat_index[k] \in -1..(MaxPollTotal - 1)
          /\ emitted[k] \subseteq 0..(MaxPollTotal - 1)
          /\ TEAM_NAMES[k] \in {UnknownTeams, TeamsOfFeed}
    /\ GAME_SESSIONS.loaded =>
          /\ GAME_SESSIONS.cursor \in 0..GAME_SESSIONS.total_events
          /\ GAME_SESSIONS.total_events = SumEvents(GAME_SESSIONS.full_plays)
    /\ ticks \in 0..MaxTicks

\* ======================================================================
\* Properties of the revealed view (SpecSlice)
\* ======================================================================
\* Events of the plays before play k, and up to and including play k.
EventsBefore(plays, k) == SumEvents(SubSeq(plays, 1, k - 1))
Cumulative(plays, k) == SumEvents(SubSeq(plays, 1, k))

\* The reference reconstruction: the plays whose cumulative count is <= c,
\* in order and in full ...
RECURSIVE FullyRevealed(_, _, _)
FullyRevealed(plays, k, c) ==
    IF k > Len(plays) THEN <<>>
    ELSE (IF Cumulative(plays, k) <= c THEN <<plays[k]>> ELSE <<>>)
         \o FullyRevealed(plays, k + 1, c)

\* ... followed, when c lies strictly inside a play, by that play cut to
\* its first c - eventsBefore events.
StrictlyInside(plays, c) ==
    {k \in 1..Len(plays) : EventsBefore(plays, k) < c /\ c < Cumulative(plays, k)}

ReferenceView(plays, c) ==
    FullyRevealed(plays, 1, c)
    \o (IF StrictlyInside(plays, c) = {} THEN <<>>
        ELSE LET k == CHOOSE k \in StrictlyInside(plays, c) : TRUE
             IN  <<[atBatIndex |-> plays[k].atBatIndex,
                    playEvents |-> [j \in 1..(c - EventsBefore(plays, k)) |->
                                        plays[k].playEvents[j]]]>>)

\* C4: for every play list and every cursor c in [0, total_events] the view
\* built by the slicing loop is the reference reconstruction: the plays
\* whose cumulative event count is <= c in full, then, only when c is
\* strictly inside a play, that play cut to its first c - eventsBefore
\* events, and nothing more.
C4_ViewIsReference ==
    response.kind = "ok" =>
        response.allPlays =
            ReferenceView(GAME_SESSIONS.full_plays, response.current_cursor)

\* C4 witness: a view of two plays whose second play is cut short.
C4_Witness ==
    /\ response.kind = "ok"
    /\ Len(response.allPlays) = 2
    /\ Len(response.allPlays[2].playEvents) >= 1
    /\ Len(response.allPlays[2].playEvents)
          < Len(GAME_SESSIONS.full_plays[2].playEvents)

\* Play k of the stored list does not occur in the view.
Absent(view, play) == \A j \in 1..Len(view) : view[j].atBatIndex # play.atBatIndex

\* C5 as stated: when the cumulative count through play k equals the cursor,
\* the view holds play k in full and does not contain play k+1, whatever
\* play k+1 is.
C5_BoundaryExcludesNext ==
    response.kind = "ok" =>
        \A k \in 1..Len(GAME_SESSIONS.full_plays) :
            Cumulative(GAME_SESSIONS.full_plays, k) = response.current_cursor =>
                /\ Len(response.allPlays) >= k
                /\ response.allPlays[k] = GAME_SESSIONS.full_plays[k]
                /\ k < Len(GAME_SESSIONS.full_plays) =>
                       Absent(response.allPlays, GAME_SESSIONS.full_plays[k + 1])

\* C5 amended: when the cumulative count through play k equals the cursor,
\* the view holds play k in full; it does not contain play k+1 when play
\* k+1 has at least one event, and it holds play k+1 (in full, with its
\* empty event list) when play k+1 has no events.
C5_BoundaryExcludesNextNonEmpty ==
    response.kind = "ok" =>
        \A k \in 1..Len(GAME_SESSIONS.full_plays) :
            Cumulative(GAME_SESSIONS.full_plays, k) = response.current_cursor =>
                /\ Len(response.allPlays) >= k
                /\ response.allPlays[k] = GAME_SESSIONS.full_plays[k]
                /\ k < Len(GAME_SESSIONS.full_plays) =>
                       LET next == GAME_SESSIONS.full_plays[k + 1]
                       IN  IF next.playEvents # <<>>
                           THEN Absent(response.allPlays, next)
                           ELSE /\ Len(response.allPlays) >= k + 1
                                /\ response.allPlays[k + 1] = next

\* C5 witness: the cursor is on the boundary after a play with events, and
\* the next play has events too.
C5_Witness ==
    /\ response.kind = "ok"
    /\ Len(GAME_SESSIONS.full_plays) >= 2
    /\ GAME_SESSIONS.full_plays[1].playEvents # <<>>
    /\ GAME_SESSIONS.full_plays[2].playEvents # <<>>
    /\ response.current_cursor = Cumulative(GAME_SESSIONS.full_plays, 1)
    /\ Len(response.allPlays) = 1

IsPrefix(s, t) == Len(s) <= Len(t) /\ \A j \in 1..Len(s) : s[j] = t[j]

ViewPrefix(v1, v2) ==
    /\ Len(v1) <= Len(v2)
    /\ \A j \in 1..Len(v1) :
          /\ v1[j].atBatIndex = v2[j].atBatIndex
          /\ IsPrefix(v1[j].playEvents, v2[j].playEvents)

\* C6: for cursors c1 < c2 in [0, total_events] the view at c1 is a prefix
\* of the view at c2: each play of the view at c1 is at the same position
\* in the view at c2 and its event list there extends its event list at c1.
C6_PrefixConsistent ==
    response.kind = "ok" =>
        \A c1 \in 0..(response.current_cursor - 1) :
            ViewPrefix(simulated_plays(GAME_SESSIONS.full_plays, c1),
                       response.allPlays)

\* C6 witness: a view at c2 with a cut second play, so that some c1 < c2
\* has a view with a cut first play and another one a shorter cut of the
\* second.
C6_Witness ==
    /\ response.kind = "ok"
    /\ Len(response.allPlays) = 2
    /\ Len(GAME_SESSIONS.full_plays[1].playEvents) >= 2
    /\ Len(response.allPlays[2].playEvents) >= 2
    /\ Len(response.allPlays[2].playEvents)
          < Len(GAME_SESSIONS.full_plays[2].playEvents)

\* ======================================================================
\* Properties of the session and of the responses
\* ======================================================================
\* C1 (SpecSeq): with requests issued one after another, the cursor of a
\* response to a request with reset=false is >= the cursor of the response
\* before it, and the cursor of the session and of every response lies in
\* [0, total_events].
C1_CursorMonotoneBounded ==
    /\ GAME_SESSIONS.loaded =>
          /\ 0 <= GAME_SESSIONS.cursor
          /\ GAME_SESSIONS.cursor <= GAME_SESSIONS.total_events
    /\ response.kind = "ok" =>
          /\ 0 <= response.current_cursor
          /\ response.current_cursor <= GAME_SESSIONS.total_events
          /\ (~response.reset /\ prev_cursor # -1) =>
                 response.current_cursor >= prev_cursor

\* C1 witness: a response to a reset=false request whose cursor is one
\* above the cursor of the response before it, short of the end.
C1_Witness ==
    /\ response.kind = "ok"
    /\ ~response.reset
    /\ prev_cursor >= 1
    /\ response.current_cursor = prev_cursor + 1
    /\ response.current_cursor < GAME_SESSIONS.total_events

\* C2 as stated (Spec): requests without reset that find no session do not
\* run the upstream fetch side by side: at most one of them is in the fetch
\* at any time, a second one waits for or reuses the first one's result.
C2_SingleFlight ==
    Cardinality({c \in Clients : pc[c] = "fetching" /\ ~req_reset[c]}) <= 1

\* C3 as stated (Spec): as long as no caller has passed reset=true (and the
\* upstream keeps returning the same timeline), the cursors of the
\* responses, in the order the responses are produced, do not decrease.
C3_ConcurrentMonotone ==
    (~reset_used /\ ~feed_changed /\ response.kind = "ok" /\ prev_cursor # -1) =>
        response.current_cursor >= prev_cursor

Cut(play, n) == [play EXCEPT !.playEvents = SubSeq(play.playEvents, 1, n)]

Plays32 == MkPlays(<<3, 2>>, 1, 0)

\* C7 (SpecSeq): a call that does not load leaves the cursor one higher when
\* it was below total_events and unchanged otherwise; after n successful
\* calls on a freshly loaded timeline, the loading call being the first,
\* the returned cursor is min(n, total_events); for event counts [3, 2] the
\* views after 2, 3, 4 and 5 calls are [play0 cut to 2], [play0],
\* [play0, play1 cut to 1] and [play0, play1] with status COMPLETE.
C7_CountInv ==
    response.kind = "ok" =>
        /\ ticks < MaxTicks =>
              response.current_cursor = Min(ticks, GAME_SESSIONS.total_events)
        /\ GAME_SESSIONS.full_plays = Plays32 =>
              /\ ticks = 2 => /\ response.allPlays = <<Cut(Plays32[1], 2)>>
                              /\ response.status = "none"
              /\ ticks = 3 => /\ response.allPlays = <<Plays32[1]>>
                              /\ response.status = "none"
              /\ ticks = 4 => /\ response.allPlays = <<Plays32[1], Cut(Plays32[2], 1)>>
                              /\ response.status = "none"
              /\ ticks = 5 => /\ response.allPlays = Plays32
                              /\ response.status = "COMPLETE"

C7_TickByOne ==
    /\ []C7_CountInv
    /\ [][(GAME_SESSIONS.loaded /\ UNCHANGED pc) =>
             GAME_SESSIONS'.cursor =
                 IF GAME_SESSIONS.cursor < GAME_SESSIONS.total_events
                 THEN GAME_SESSIONS.cursor + 1
                 ELSE GAME_SESSIONS.cursor]_vars

\* C7 witness: the fifth call on the timeline with event counts [3, 2].
C7_Witness ==
    /\ response.kind = "ok"
    /\ GAME_SESSIONS.full_plays = Plays32
    /\ ticks = 5
    /\ prev_cursor = 4
    /\ response.current_cursor = 5

\* C8 as stated (Spec): once a response has carried COMPLETE and no request
\* with reset=true has been made since (and the upstream keeps returning
\* the same timeline), a call without reset returns all plays in full,
\* cursor = total_events and status COMPLETE, and leaves the session as it
\* was.
C8_IdempotentAfterComplete ==
    [][(complete_seen /\ ~feed_changed /\ GAME_SESSIONS.loaded /\ UNCHANGED pc) =>
          /\ GAME_SESSIONS' = GAME_SESSIONS
          /\ response'.kind = "ok"
          /\ response'.allPlays = GAME_SESSIONS.full_plays
          /\ response'.current_cursor = GAME_SESSIONS.total_events
          /\ response'.status = "COMPLETE"]_vars

\* C9 as stated (Spec): a response carries COMPLETE exactly when the
\* session's cursor equals total_events, and once a response has carried
\* COMPLETE every later response to a request without reset carries it,
\* until a request with reset=true is made (the upstream returning the
\* same timeline throughout).
C9_CompleteIffAtEnd ==
    response.kind = "ok" =>
        (response.status = "COMPLETE"
            <=> GAME_SESSIONS.cursor = GAME_SESSIONS.total_events)

C9_CompleteStays ==
    /\ []C9_CompleteIffAtEnd
    /\ [][(complete_seen /\ ~feed_changed' /\ response' # response
           /\ response'.kind = "ok" /\ ~response'.reset) =>
              response'.status = "COMPLETE"]_vars

\* C10 (Spec): the response to a request with reset=true comes after one
\* fetch; the session then holds the fetched plays, total_events is the sum
\* of their event counts, and the cursor is the one advance of this request
\* away from 0, whatever the cursor of the replaced session was.
C10_ResetReloads ==
    (response.kind = "ok" /\ response.reset) =>
        /\ response.fetches = 1
        /\ GAME_SESSIONS.full_plays \in {feed.plays : feed \in Feeds}
        /\ GAME_SESSIONS.total_events = SumEvents(GAME_SESSIONS.full_plays)
        /\ GAME_SESSIONS.cursor = Min(1, GAME_SESSIONS.total_events)
        /\ response.current_cursor = GAME_SESSIONS.cursor

\* C10 witness: the replaced session was active at cursor >= 2 (its last
\* response did not carry COMPLETE) and the new one stands at cursor 1 of
\* a timeline with more events.
C10_Witness ==
    /\ response.kind = "ok"
    /\ response.reset
    /\ prev_cursor >= 2
    /\ ~prev_complete
    /\ response.current_cursor = 1
    /\ GAME_SESSIONS.total_events >= 2

\* C11 (Spec): when the fetch fails the request ends with an error and the
\* session store is what it was before the request: no session appears
\* where there was none, an existing session keeps its plays, total_events,
\* cursor and teams; the caller is idle again and can start a load.
C11_FailedStep ==
    \E c \in Clients : pc[c] = "fetching" /\ pc'[c] = "idle" /\ response'.kind = "error"

C11_LoadFailLeavesStore ==
    /\ [][C11_FailedStep => GAME_SESSIONS' = GAME_SESSIONS]_vars
    /\ [](response.kind = "error" =>
             \A c \in Clients : pc[c] = "idle" => ENABLED BeginLoad(c, TRUE))

\* C11 witness: a failed reset has left an advanced session in place.
C11_Witness ==
    /\ response.kind = "error"
    /\ response.reset
    /\ GAME_SESSIONS.loaded
    /\ GAME_SESSIONS.cursor >= 2
    /\ prev_cursor = GAME_SESSIONS.cursor

\* C15 (Spec): a call that does not load leaves full_plays, total_events
\* and teams of the session as they are; only the cursor may change.
C15_TickKeepsTimeline ==
    [][(GAME_SESSIONS.loaded /\ UNCHANGED pc) =>
          /\ GAME_SESSIONS'.full_plays = GAME_SESSIONS.full_plays
          /\ GAME_SESSIONS'.total_events = GAME_SESSIONS.total_events
          /\ GAME_SESSIONS'.teams = GAME_SESSIONS.teams
          /\ GAME_SESSIONS'.total_events = SumEvents(GAME_SESSIONS'.full_plays)]_vars

\* C15 witness: a call without load has returned a view whose last play is
\* cut, while the stored play has all its events.
C15_Witness ==
    /\ response.kind = "ok"
    /\ response.fetches = 0
    /\ response.allPlays # <<>>
    /\ LET n == Len(response.allPlays)
       IN  /\ response.allPlays[n].playEvents # <<>>
           /\ Len(response.allPlays[n].playEvents)
                 < Len(GAME_SESSIONS.full_plays[n].playEvents)

\* C16 as stated (Spec): a request with reset=false never performs a load,
\* and a session exists only after a request with reset=true.
C16_NoLoadWithoutReset ==
    /\ \A c \in Clients : pc[c] = "fetching" => req_reset[c]
    /\ GAME_SESSIONS.loaded => reset_used

\* C16 amended (Spec): a request with reset=false that finds no session
\* performs the load; when the fetch succeeds the session exists and the
\* response is the first view, cursor min(1, total_events); a request with
\* reset=false starts a load only when there is no session.
C16_FirstAccessStep ==
    \E c \in Clients : pc[c] = "idle" /\ pc'[c] = "fetching" /\ ~req_reset'[c]

C16_FirstAccessLoads ==
    /\ []((response.kind = "ok" /\ ~response.reset /\ response.fetches = 1) =>
             /\ GAME_SESSIONS.loaded
             /\ GAME_SESSIONS.cursor = Min(1, GAME_SESSIONS.total_events)
             /\ response.current_cursor = GAME_SESSIONS.cursor)
    /\ [][C16_FirstAccessStep => ~GAME_SESSIONS.loaded]_vars

\* C16 witness: the first response of all answers a request without reset
\* that loaded the timeline.
C16_Witness ==
    /\ response.kind = "ok"
    /\ ~response.reset
    /\ response.fetches = 1
    /\ ~reset_used
    /\ prev_cursor = -1
    /\ response.current_cursor = 1

\* C18 (Spec): in every response the events of allPlays number
\* current_cursor, current_cursor is the cursor of the stored session, and
\* allPlays is a prefix view of the stored session's play list.
C18_ViewMatchesCursor ==
    response.kind = "ok" =>
        /\ SumEvents(response.allPlays) = response.current_cursor
        /\ response.current_cursor = GAME_SESSIONS.cursor
        /\ ViewPrefix(response.allPlays, GAME_SESSIONS.full_plays)

\* C18 witness: a response to a reset produced while another request is in
\* its fetch, replacing a session that stood at another cursor.
C18_Witness ==
    /\ response.kind = "ok"
    /\ response.reset
    /\ prev_cursor >= 2
    /\ response.current_cursor = 1
    /\ \E c \in Clients : pc[c] = "fetching"

\* ======================================================================
\* Properties of the consumer (SpecPoll, SpecLone)
\* ======================================================================
\* C12: the at-bat detector never emits the same at-bat index twice,
\* whatever the interleaving of its own polls, the polls of other clients
\* and the resets of other clients (the at-bat indices of the plays are
\* unique and the upstream data does not change).
C12_NoDuplicateEmission == ~dup

\* C13: a play of a view carries a result only when all its events are
\* revealed, so the detector prints no result for a play of which the view
\* holds fewer events than the play has.
C13_ResultOnlyWhenConcluded ==
    /\ (response.kind = "ok" /\ GAME_SESSIONS.loaded) =>
          \A j \in 1..Len(response.allPlays) :
              response.allPlays[j].result # "absent" =>
                  Len(response.allPlays[j].playEvents)
                      = Len(GAME_SESSIONS.full_plays[j].playEvents)
    /\ ~emitted_partial

\* A step in which a poll of consumer k ends in a fetch error.
C14_ErrorPoll(k) ==
    /\ continue_polling[k] = "True"
    /\ seen_status'[k] = "error"
    /\ pc'[k] = "idle"
    /\ (pc[k] = "fetching" \/ UNCHANGED <<GAME_SESSIONS, pc, response>>)

\* C14: a fetch error of a consumer is swallowed: the poll that ends in it
\* leaves continue_polling true, so that main polls again, and leaves
\* last_processed_at_bat_index as it was.
C14_ErrorKeepsPolling ==
    [][\A k \in Consumers :
          C14_ErrorPoll(k) =>
              /\ continue_polling'[k] = "True"
              /\ last_processed_at_bat_index'[k] = last_processed_at_bat_index[k]]_vars

Max(a, b) == IF a >= b THEN a ELSE b

Resolved(play) == Len(play.playEvents) >= 1 /\ play.result = "desc"

\* C19: a lone consumer that polled from the load to COMPLETE without a
\* fetch error has emitted every resolved play, the last play of the
\* timeline included.
C19_LoneEmitsAll ==
    continue_polling[1] = "False" =>
        \A j \in 1..Len(GAME_SESSIONS.full_plays) :
            Resolved(GAME_SESSIONS.full_plays[j]) =>
                GAME_SESSIONS.full_plays[j].atBatIndex \in emitted[1]

\* C20: with two consumers polling the same timeline and no reset, a
\* consumer that polled to COMPLETE has emitted every resolved play; stated
\* for the plays before the last one, which a lone consumer always emits.
C20_ConsumersIndependent ==
    \A k \in Consumers :
        (continue_polling[k] = "False" /\ ~reset_used) =>
            \A j \in 1..(Len(GAME_SESSIONS.full_plays) - 1) :
                Resolved(GAME_SESSIONS.full_plays[j]) =>
                    GAME_SESSIONS.full_plays[j].atBatIndex \in emitted[k]

====
